---- MODULE Spec2Model ----
(***************************************************************************)
(* yew-agent, src/hooks.rs: the use_bridge hook and UseBridgeHandle.       *)
(*                                                                         *)
(* One component instance, one logical thread.  The thread's call chain is *)
(* the sequence `stack`: a use_bridge call (a render pass), a call of the  *)
(* forwarding closure handed to T::bridge (lines 81-84) or a call of       *)
(* UseBridgeHandle::send.  Only the top frame steps.  Rc strong counts and *)
(* RefCell borrow flags are kept as the standard library keeps them.       *)
(***************************************************************************)
EXTENDS Integers, Sequences, FiniteSets, TLC

\* Bounds of the exploration.
MaxPass == 3        \* render passes (use_bridge calls) of the instance
MaxOut == 2         \* Outputs the transport delivers
MaxSend == 2        \* calls of UseBridgeHandle::send
MaxHandles == 2     \* handles held by consumer code when it clones one

Input == 1..MaxSend                     \* T::Input payloads x1, x2, ..
Output == {"IncrementCounter", "Other"} \* T::Output payloads
Handler == 1..MaxPass                   \* H_k: the closure pass k supplies

VARIABLES
    mounted,        \* the component instance is mounted (hook state alive)
    passes,         \* use_bridge calls started so far
    hooks,          \* what use_mut_ref has stored for the instance
    on_output,      \* per handler H_k: Rc strong count, captured handle
    on_output_ref,  \* Rc<RefCell<Rc<F>>>: content, borrow flag, strong count
    bridge,         \* Rc<RefCell<Box<dyn Bridge>>>: connection, flag, count
    state,          \* the Session: Uninitialized, Connected, Closed
    connects,       \* calls of T::bridge
    teardowns,      \* drops of the Box<dyn Bridge>
    handles,        \* UseBridgeHandles held by consumer code (their inner)
    stack,          \* the call chain, innermost frame last
    panic,          \* the panic being unwound, or "none"
    refreshed,      \* the pass whose refresh (line 76) ran last
    returned,       \* per pass, the connection its handle refers to
    delivered,      \* Outputs the transport gave the forwarding closure
    invoked,        \* handler invocations: which handler, which Output
    sendCalls,      \* send calls issued, in call order
    transportSends, \* Bridge::send calls the transport observed
    sendDone        \* send calls that ended, with what the caller saw

vars == <<mounted, passes, hooks, on_output, on_output_ref, bridge, state,
          connects, teardowns, handles, stack, panic, refreshed, returned,
          delivered, invoked, sendCalls, transportSends, sendDone>>

heapVars == <<on_output, on_output_ref, bridge, state, teardowns>>
logVars == <<returned, delivered, invoked, sendCalls, transportSends, sendDone>>

----------------------------------------------------------------------------
\* Call frames.

Frame(op, pc) ==
    [op |-> op, pc |-> pc, h |-> 0, out |-> "", d |-> 0, msg |-> 0,
     conn |-> 0, tcalls |-> 0, tres |-> "none"]

Top == stack[Len(stack)]
Idle == stack = <<>> /\ panic = "none"
At(op, pc) == panic = "none" /\ stack # <<>> /\ Top.op = op /\ Top.pc = pc
SetTop(f) == [stack EXCEPT ![Len(stack)] = f]
Goto(pc) == SetTop([Top EXCEPT !.pc = pc])
Pop == SubSeq(stack, 1, Len(stack) - 1)
Rendering == \E i \in 1..Len(stack) : stack[i].op = "use_bridge"

----------------------------------------------------------------------------
\* Rc<_>: dropping a reference, and what the last drop releases.

Heap ==
    [on_output |-> on_output, on_output_ref |-> on_output_ref,
     bridge |-> bridge, state |-> state, teardowns |-> teardowns]

Store(H) ==
    /\ on_output' = H.on_output
    /\ on_output_ref' = H.on_output_ref
    /\ bridge' = H.bridge
    /\ state' = H.state
    /\ teardowns' = H.teardowns

RECURSIVE DropHandler(_, _), DropBridge(_), DropSlot(_)

\* Drop one Rc<F> of handler k; the last one drops the closure and with it
\* the UseBridgeHandle it captured, if any.
DropHandler(H, k) ==
    LET s == H.on_output[k].strong - 1
        H1 == [H EXCEPT !.on_output[k].strong = s]
    IN  IF s = 0 /\ H.on_output[k].cap # 0 THEN DropBridge(H1) ELSE H1

\* Drop one Rc of the bridge (line 13); the last one drops the Box<dyn
\* Bridge>: the transport tears the connection down and lets go of the
\* forwarding closure, which owned an Rc of the callback slot.
DropBridge(H) ==
    LET s == H.bridge.strong - 1
        H1 == [H EXCEPT !.bridge.strong = s]
    IN  IF s = 0
        THEN DropSlot([H1 EXCEPT !.state = "Closed", !.teardowns = @ + 1])
        ELSE H1

\* Drop one Rc of the callback slot; the last one drops its content.
DropSlot(H) ==
    LET s == H.on_output_ref.strong - 1
        H1 == [H EXCEPT !.on_output_ref.strong = s]
    IN  IF s = 0 THEN DropHandler(H1, H.on_output_ref.val) ELSE H1

----------------------------------------------------------------------------
Init ==
    /\ mounted = TRUE
    /\ passes = 0
    /\ hooks = [on_output_ref |-> FALSE, bridge |-> FALSE]
    /\ on_output = [k \in Handler |-> [strong |-> 0, cap |-> 0]]
    /\ on_output_ref = [val |-> 0, borrow |-> 0, strong |-> 0]
    /\ bridge = [conn |-> 0, borrow |-> 0, strong |-> 0]
    /\ state = "Uninitialized"
    /\ connects = 0
    /\ teardowns = 0
    /\ handles = <<>>
    /\ stack = <<>>
    /\ panic = "none"
    /\ refreshed = 0
    /\ returned = <<>>
    /\ delivered = <<>>
    /\ invoked = <<>>
    /\ sendCalls = <<>>
    /\ transportSends = <<>>
    /\ sendDone = <<>>

----------------------------------------------------------------------------
\* use_bridge, lines 63-89: one render pass.

\* use_mut_ref(init) runs init on the instance's first call only, stores the
\* result, and returns the stored cell on every call.
RunsInit(cell) == ~hooks[cell]

\* The handles the component code building this pass's closure can clone
\* into it: none (0), or one it holds.
Capturable == {0} \cup {handles[i] : i \in 1..Len(handles)}

\* Lines 68-70: the caller built the closure (moving a clone of a handle
\* into it when cap # 0); Rc::new(on_output), on_output.clone().
StartPass(cap, rest) ==
    LET h == passes + 1 IN
    /\ mounted
    /\ passes < MaxPass
    /\ passes' = h
    /\ on_output' = [on_output EXCEPT ![h] = [strong |-> 2, cap |-> cap]]
    /\ bridge' = IF cap = 0 THEN bridge
                 ELSE [bridge EXCEPT !.strong = @ + 1]
    /\ stack' = Append(rest, [Frame("use_bridge", "on_output_ref")
                              EXCEPT !.h = h])
    /\ UNCHANGED <<mounted, hooks, on_output_ref, state, connects, teardowns,
                   handles, panic, refreshed, logVars>>

\* The framework renders the instance.
Render(cap) ==
    /\ Idle
    /\ StartPass(cap, stack)

\* Line 71: use_mut_ref(move || on_output_clone).  The first pass stores a
\* cell holding the clone; a later pass drops the initialiser, and the
\* clone with it.  Either way the pass gets an Rc of the stored cell.
SlotUseMutRef ==
    /\ At("use_bridge", "on_output_ref")
    /\ IF RunsInit("on_output_ref")
       THEN /\ hooks' = [hooks EXCEPT !.on_output_ref = TRUE]
            /\ on_output_ref' = [val |-> Top.h, borrow |-> 0, strong |-> 2]
            /\ UNCHANGED on_output
       ELSE /\ on_output_ref' = [on_output_ref EXCEPT !.strong = @ + 1]
            /\ on_output' = [on_output EXCEPT ![Top.h].strong = @ - 1]
            /\ UNCHANGED hooks
    /\ stack' = Goto("borrow_mut")
    /\ UNCHANGED <<mounted, passes, bridge, state, connects, teardowns,
                   handles, panic, refreshed, logVars>>

\* Line 75: on_output_ref.borrow_mut() panics when the cell is borrowed.
RefreshBorrowMut ==
    /\ At("use_bridge", "borrow_mut")
    /\ IF on_output_ref.borrow # 0
       THEN /\ panic' = "on_output_ref: BorrowMutError"
            /\ UNCHANGED <<on_output_ref, stack>>
       ELSE /\ on_output_ref' = [on_output_ref EXCEPT !.borrow = -1]
            /\ stack' = Goto("assign")
            /\ UNCHANGED panic
    /\ UNCHANGED <<mounted, passes, hooks, on_output, bridge, state, connects,
                   teardowns, handles, refreshed, logVars>>

\* Lines 75-76 with the assignment left out: the new handler is dropped
\* and the slot keeps what it held.
RefreshAssignKeep ==
    /\ At("use_bridge", "assign")
    /\ Store(DropHandler(Heap, Top.h))
    /\ refreshed' = Top.h
    /\ stack' = Goto("release")
    /\ UNCHANGED <<mounted, passes, hooks, connects, handles, panic, logVars>>

\* Line 76: *on_output_ref = on_output; the Rc it held before is dropped.
RefreshAssign ==
    /\ At("use_bridge", "assign")
    /\ Store(DropHandler([Heap EXCEPT !.on_output_ref.val = Top.h],
                         on_output_ref.val))
    /\ refreshed' = Top.h
    /\ stack' = Goto("release")
    /\ UNCHANGED <<mounted, passes, hooks, connects, handles, panic, logVars>>

\* Line 77: the RefMut goes out of scope.
RefreshRelease ==
    /\ At("use_bridge", "release")
    /\ on_output_ref' = [on_output_ref EXCEPT !.borrow = 0]
    /\ stack' = Goto("bridge")
    /\ UNCHANGED <<mounted, passes, hooks, on_output, bridge, state, connects,
                   teardowns, handles, panic, refreshed, logVars>>

\* Lines 79-86 on the first pass: the initialiser runs and calls T::bridge
\* with the forwarding closure, which takes the pass's Rc of the slot.
BridgeConnect ==
    /\ connects' = connects + 1
    /\ state' = "Connected"
    /\ bridge' = [bridge EXCEPT !.conn = connects + 1]
    /\ stack' = Goto("connecting")
    /\ UNCHANGED <<on_output, on_output_ref, teardowns>>

\* Lines 79-86 on a later pass: the initialiser is dropped unused, and its
\* forwarding closure's Rc of the slot with it; the pass gets an Rc of the
\* stored bridge.
BridgeReuse ==
    /\ Store(DropSlot([Heap EXCEPT !.bridge.strong = @ + 1]))
    /\ stack' = Goto("return")
    /\ UNCHANGED connects

\* A hook that bridges on every render instead of through use_mut_ref.
BridgeEveryPass ==
    /\ At("use_bridge", "bridge")
    /\ BridgeConnect
    /\ UNCHANGED <<mounted, passes, hooks, handles, panic, refreshed, logVars>>

\* Lines 79-86: use_mut_ref(move || T::bridge(..)).
BridgeUseMutRef ==
    /\ At("use_bridge", "bridge")
    /\ IF RunsInit("bridge") THEN BridgeConnect ELSE BridgeReuse
    /\ UNCHANGED <<mounted, passes, hooks, handles, panic, refreshed, logVars>>

\* T::bridge returns the connection; use_mut_ref stores it in an
\* Rc<RefCell<_>> and hands the pass an Rc of it.
ConnectReturn ==
    /\ At("use_bridge", "connecting")
    /\ hooks' = [hooks EXCEPT !.bridge = TRUE]
    /\ bridge' = [bridge EXCEPT !.strong = @ + 2]
    /\ stack' = Goto("return")
    /\ UNCHANGED <<mounted, passes, on_output, on_output_ref, state, connects,
                   teardowns, handles, panic, refreshed, logVars>>

\* Line 88 with the handle built from a reference that does not own the
\* connection: the Rc the pass held is dropped at return.
UseBridgeReturnWeak ==
    /\ At("use_bridge", "return")
    /\ handles' = Append(handles, bridge.conn)
    /\ returned' = Append(returned, bridge.conn)
    /\ stack' = Pop
    /\ Store(DropBridge(Heap))
    /\ UNCHANGED <<mounted, passes, hooks, connects, panic, refreshed,
                   delivered, invoked, sendCalls, transportSends, sendDone>>

\* Line 88: UseBridgeHandle { inner: bridge } goes to the component code.
UseBridgeReturn ==
    /\ At("use_bridge", "return")
    /\ handles' = Append(handles, bridge.conn)
    /\ returned' = Append(returned, bridge.conn)
    /\ stack' = Pop
    /\ UNCHANGED <<mounted, passes, hooks, heapVars, connects, panic,
                   refreshed, delivered, invoked, sendCalls, transportSends,
                   sendDone>>

----------------------------------------------------------------------------
\* The forwarding closure handed to T::bridge, lines 81-84.

\* The transport calls the closure with an Output.
AdapterEnter(o) ==
    /\ Len(delivered) < MaxOut
    /\ delivered' = Append(delivered, [out |-> o, cur |-> refreshed])
    /\ stack' = Append(stack, [Frame("adapter", "borrow")
                               EXCEPT !.out = o, !.d = Len(delivered) + 1])
    /\ UNCHANGED <<mounted, passes, hooks, heapVars, connects, handles, panic,
                   refreshed, returned, invoked, sendCalls, transportSends,
                   sendDone>>

\* The worker's Output arrives while the thread is otherwise idle.
Deliver(o) ==
    /\ Idle
    /\ state = "Connected"
    /\ AdapterEnter(o)

\* The transport delivers an Output from inside T::bridge.
ConnectDeliver(o) ==
    /\ At("use_bridge", "connecting")
    /\ AdapterEnter(o)

\* The transport delivers an Output from inside Bridge::send.
SendDeliver(o) ==
    /\ At("send", "in_transport")
    /\ AdapterEnter(o)

\* Line 82, on_output_ref.borrow(): panics when the cell is mutably
\* borrowed, else one more shared borrow.
AdapterBorrow ==
    /\ At("adapter", "borrow")
    /\ IF on_output_ref.borrow < 0
       THEN /\ panic' = "on_output_ref: BorrowError"
            /\ UNCHANGED <<on_output_ref, stack>>
       ELSE /\ on_output_ref' = [on_output_ref EXCEPT !.borrow = @ + 1]
            /\ stack' = Goto("clone")
            /\ UNCHANGED panic
    /\ UNCHANGED <<mounted, passes, hooks, on_output, bridge, state, connects,
                   teardowns, handles, refreshed, logVars>>

\* A forwarding closure that captured the first pass's handler itself.
AdapterCloneStale ==
    /\ At("adapter", "clone")
    /\ on_output' = [on_output EXCEPT ![1].strong = @ + 1]
    /\ stack' = SetTop([Top EXCEPT !.pc = "release", !.h = 1])
    /\ UNCHANGED <<mounted, passes, hooks, on_output_ref, bridge, state,
                   connects, teardowns, handles, panic, refreshed, logVars>>

\* Line 82, .clone(): an Rc of the handler the slot holds now.
AdapterClone ==
    /\ At("adapter", "clone")
    /\ on_output' = [on_output EXCEPT ![on_output_ref.val].strong = @ + 1]
    /\ stack' = SetTop([Top EXCEPT !.pc = "release", !.h = on_output_ref.val])
    /\ UNCHANGED <<mounted, passes, hooks, on_output_ref, bridge, state,
                   connects, teardowns, handles, panic, refreshed, logVars>>

\* A forwarding closure that calls through the Ref:
\* (on_output_ref.borrow())(output).
AdapterKeepBorrow ==
    /\ At("adapter", "release")
    /\ stack' = Goto("call")
    /\ UNCHANGED <<mounted, passes, hooks, heapVars, connects, handles, panic,
                   refreshed, logVars>>

\* Line 82, the end of the statement: the temporary Ref is dropped.
AdapterRelease ==
    /\ At("adapter", "release")
    /\ on_output_ref' = [on_output_ref EXCEPT !.borrow = @ - 1]
    /\ stack' = Goto("call")
    /\ UNCHANGED <<mounted, passes, hooks, on_output, bridge, state, connects,
                   teardowns, handles, panic, refreshed, logVars>>

\* A forwarding closure that coalesces an Output equal to the one before.
AdapterCallCoalesce ==
    /\ At("adapter", "call")
    /\ invoked' = IF invoked # <<>> /\ invoked[Len(invoked)].out = Top.out
                  THEN invoked
                  ELSE Append(invoked, [out |-> Top.out, h |-> Top.h])
    /\ stack' = Goto("running")
    /\ UNCHANGED <<mounted, passes, hooks, heapVars, connects, handles, panic,
                   refreshed, returned, delivered, sendCalls, transportSends,
                   sendDone>>

\* Line 83: on_output(output).
AdapterCall ==
    /\ At("adapter", "call")
    /\ invoked' = Append(invoked, [out |-> Top.out, h |-> Top.h])
    /\ stack' = Goto("running")
    /\ UNCHANGED <<mounted, passes, hooks, heapVars, connects, handles, panic,
                   refreshed, returned, delivered, sendCalls, transportSends,
                   sendDone>>

\* The handler is consumer code.  It may change component state so that the
\* instance renders again before the handler returns; render passes of one
\* instance do not nest.
HandlerRender(cap) ==
    /\ At("adapter", "running")
    /\ ~Rendering
    /\ cap \in Capturable \cup {on_output[Top.h].cap}
    /\ StartPass(cap, stack)

\* The handler returns.
HandlerReturn ==
    /\ At("adapter", "running")
    /\ stack' = Goto("return")
    /\ UNCHANGED <<mounted, passes, hooks, heapVars, connects, handles, panic,
                   refreshed, logVars>>

\* Line 84: the closure returns and its Rc of the handler is dropped.
AdapterReturn ==
    /\ At("adapter", "return")
    /\ Store(DropHandler(Heap, Top.h))
    /\ stack' = Pop
    /\ UNCHANGED <<mounted, passes, hooks, connects, handles, panic,
                   refreshed, logVars>>

----------------------------------------------------------------------------
\* UseBridgeHandle::send, lines 21-24.

\* The n-th call of send carries the payload x_n.
SendEnter(c, x) ==
    /\ Len(sendCalls) < MaxSend
    /\ x = Len(sendCalls) + 1
    /\ sendCalls' = Append(sendCalls, [conn |-> c, msg |-> x])
    /\ stack' = Append(stack, [Frame("send", "borrow_mut")
                               EXCEPT !.msg = x, !.conn = c])
    /\ UNCHANGED <<mounted, passes, hooks, heapVars, connects, handles, panic,
                   refreshed, returned, delivered, invoked, transportSends,
                   sendDone>>

\* Component code calls send on a handle it holds.
CallSend(i, x) ==
    /\ Idle
    /\ i \in 1..Len(handles)
    /\ SendEnter(handles[i], x)

\* A handler calls send on the handle its closure captured.
HandlerSend(x) ==
    /\ At("adapter", "running")
    /\ on_output[Top.h].cap # 0
    /\ SendEnter(on_output[Top.h].cap, x)

\* Line 22: self.inner.borrow_mut() panics when the cell is borrowed.
SendBorrowMut ==
    /\ At("send", "borrow_mut")
    /\ IF bridge.borrow # 0
       THEN /\ panic' = "bridge: BorrowMutError"
            /\ UNCHANGED <<bridge, stack>>
       ELSE /\ bridge' = [bridge EXCEPT !.borrow = -1]
            /\ stack' = Goto("send")
            /\ UNCHANGED panic
    /\ UNCHANGED <<mounted, passes, hooks, on_output, on_output_ref, state,
                   connects, teardowns, handles, refreshed, logVars>>

\* Line 23: bridge.send(msg) enters the transport's send, once.
BridgeSend ==
    /\ At("send", "send")
    /\ transportSends' = Append(transportSends,
                                [conn |-> Top.conn, msg |-> Top.msg])
    /\ stack' = SetTop([Top EXCEPT !.pc = "in_transport", !.tcalls = @ + 1])
    /\ UNCHANGED <<mounted, passes, hooks, heapVars, connects, handles, panic,
                   refreshed, returned, delivered, invoked, sendCalls,
                   sendDone>>

\* The transport's send returns.
TransportAccept ==
    /\ At("send", "in_transport")
    /\ stack' = SetTop([Top EXCEPT !.pc = "release", !.tres = "ok"])
    /\ UNCHANGED <<mounted, passes, hooks, heapVars, connects, handles, panic,
                   refreshed, logVars>>

\* The transport's send rejects the message: Bridge::send returns nothing,
\* so a rejection leaves it as a panic.
TransportReject ==
    /\ At("send", "in_transport")
    /\ stack' = SetTop([Top EXCEPT !.tres = "reject"])
    /\ panic' = "SendFailure"
    /\ UNCHANGED <<mounted, passes, hooks, heapVars, connects, handles,
                   refreshed, logVars>>

\* Line 24: the RefMut is dropped and send returns to its caller.
SendRelease ==
    /\ At("send", "release")
    /\ bridge' = [bridge EXCEPT !.borrow = 0]
    /\ sendDone' = Append(sendDone, [msg |-> Top.msg, tcalls |-> Top.tcalls,
                                     tres |-> Top.tres, result |-> "ok"])
    /\ stack' = Pop
    /\ UNCHANGED <<mounted, passes, hooks, on_output, on_output_ref, state,
                   connects, teardowns, handles, panic, refreshed, returned,
                   delivered, invoked, sendCalls, transportSends>>

----------------------------------------------------------------------------
\* A panic unwinds the call chain frame by frame; each frame's locals are
\* dropped (the RefMut of line 22, the Ref and the Rc of line 82, the Rcs of
\* lines 68-71), and the caller of send sees the panic.

UnwindFrame(H, f) ==
    CASE f.op = "send" ->
            IF f.pc = "borrow_mut" THEN H
            ELSE [H EXCEPT !.bridge.borrow = 0]
      [] f.op = "adapter" ->
            IF f.pc = "borrow" THEN H
            ELSE DropHandler(H, f.h)
      [] f.op = "use_bridge" ->
            IF f.pc = "borrow_mut"
            THEN DropSlot(DropHandler(H, f.h))
            ELSE DropSlot(H)

\* The frame on top is left by the panic; caught says whether the frame
\* stops the panic there and returns normally.
UnwindTop(caught) ==
    /\ panic # "none"
    /\ stack # <<>>
    /\ Store(UnwindFrame(Heap, Top))
    /\ sendDone' = IF Top.op = "send"
                   THEN Append(sendDone,
                               [msg |-> Top.msg, tcalls |-> Top.tcalls,
                                tres |-> Top.tres,
                                result |-> IF caught THEN "ok" ELSE "panic"])
                   ELSE sendDone
    /\ panic' = IF caught THEN "none" ELSE panic
    /\ stack' = Pop
    /\ UNCHANGED <<mounted, passes, hooks, connects, handles, refreshed,
                   returned, delivered, invoked, sendCalls, transportSends>>

\* A send that catches what the transport's send raises and returns.
UnwindSwallow == UnwindTop(Top.op = "send" /\ Top.tres = "reject")

\* Nothing in lines 21-24 or 81-84 catches a panic.
Unwind == UnwindTop(FALSE)

----------------------------------------------------------------------------
\* Component code and the framework, between calls.

Remove(seq, i) == SubSeq(seq, 1, i - 1) \o SubSeq(seq, i + 1, Len(seq))

\* A Clone that copies the pointer without counting the new owner.
CloneHandleUncounted(i) ==
    /\ Idle
    /\ i \in 1..Len(handles)
    /\ Len(handles) < MaxHandles
    /\ handles' = Append(handles, handles[i])
    /\ UNCHANGED <<mounted, passes, hooks, heapVars, connects, stack, panic,
                   refreshed, logVars>>

\* Lines 91-97: Clone for UseBridgeHandle clones the Rc.
CloneHandle(i) ==
    /\ Idle
    /\ i \in 1..Len(handles)
    /\ Len(handles) < MaxHandles
    /\ handles' = Append(handles, handles[i])
    /\ bridge' = [bridge EXCEPT !.strong = @ + 1]
    /\ UNCHANGED <<mounted, passes, hooks, on_output, on_output_ref, state,
                   connects, teardowns, stack, panic, refreshed, logVars>>

\* Lines 9-14: a handle is dropped, and its Rc with it.
DropHandle(i) ==
    /\ Idle
    /\ i \in 1..Len(handles)
    /\ handles' = Remove(handles, i)
    /\ Store(DropBridge(Heap))
    /\ UNCHANGED <<mounted, passes, hooks, connects, stack, panic, refreshed,
                   logVars>>

\* The instance unmounts: the framework drops what use_mut_ref stored, the
\* slot's Rc (line 71) and the bridge's (line 79).
Unmount ==
    /\ Idle
    /\ mounted
    /\ mounted' = FALSE
    /\ hooks' = [on_output_ref |-> FALSE, bridge |-> FALSE]
    /\ LET H1 == IF hooks.on_output_ref THEN DropSlot(Heap) ELSE Heap
           H2 == IF hooks.bridge THEN DropBridge(H1) ELSE H1
       IN  Store(H2)
    /\ UNCHANGED <<passes, connects, handles, stack, panic, refreshed,
                   logVars>>

----------------------------------------------------------------------------
Next ==
    \/ \E cap \in Capturable : Render(cap)
    \/ SlotUseMutRef
    \/ RefreshBorrowMut
    \/ RefreshAssign
    \/ RefreshRelease
    \/ BridgeUseMutRef
    \/ ConnectReturn
    \/ UseBridgeReturn
    \/ \E o \in Output : Deliver(o)
    \/ \E o \in Output : ConnectDeliver(o)
    \/ \E o \in Output : SendDeliver(o)
    \/ AdapterBorrow
    \/ AdapterClone
    \/ AdapterRelease
    \/ AdapterCall
    \/ \E cap \in 0..connects : HandlerRender(cap)
    \/ HandlerReturn
    \/ AdapterReturn
    \/ \E i \in 1..Len(handles), x \in Input : CallSend(i, x)
    \/ \E x \in Input : HandlerSend(x)
    \/ SendBorrowMut
    \/ BridgeSend
    \/ TransportAccept
    \/ TransportReject
    \/ SendRelease
    \/ Unwind
    \/ \E i \in 1..Len(handles) : CloneHandle(i)
    \/ \E i \in 1..Len(handles) : DropHandle(i)
    \/ Unmount

Spec == Init /\ [][Next]_vars

\* The one thread keeps running: a call in progress executes its next
\* line, and a panic unwinds the frames below it.  Nothing obliges the
\* framework, the component code or the worker to act when no call is in
\* progress.
FairSpec == Spec /\ WF_vars(stack # <<>> /\ Next)

----------------------------------------------------------------------------
\* Properties.

Frames(op) == {i \in 1..Len(stack) : stack[i].op = op}
\* The invocations of the forwarding closure in which the handler has been
\* cloned out of the slot and not yet dropped.
InFlight == {i \in Frames("adapter") :
                stack[i].pc \in {"release", "call", "running", "return"}}
\* The handler invocations that are executing.
Executing == {i \in Frames("adapter") : stack[i].pc = "running"}

\* C1: over any number of render passes T::bridge is called exactly once,
\* by the first pass (a later pass starts with the connection made and
\* makes none), and every pass returns a handle on that one connection.
C1_BridgeOnce ==
    /\ connects <= 1
    /\ \A i \in Frames("use_bridge") :
          \/ stack[i].h = 1 /\ connects = 0
                /\ stack[i].pc \in {"on_output_ref", "borrow_mut", "assign",
                                    "release", "bridge"}
          \/ connects = 1
    /\ Len(returned) >= 1 => connects = 1
    /\ \A i \in 1..Len(returned) : returned[i] = 1 /\ returned[i] = bridge.conn

C1_Witness ==
    /\ Len(returned) = MaxPass
    /\ MaxPass >= 2
    /\ connects = 1

\* C2: the Output the transport hands over after pass k refreshed the slot
\* and before pass k+1 does is processed by H_k and by no other handler:
\* the i-th handler invocation is of the handler refreshed last when the
\* i-th Output was handed over, with that Output.
C2_CurrentHandler ==
    /\ Len(invoked) <= Len(delivered)
    /\ \A i \in 1..Len(invoked) :
          /\ invoked[i].h = delivered[i].cur
          /\ invoked[i].out = delivered[i].out
          /\ invoked[i].h >= 1

\* Counter A of handler C1 and counter B of handler C2: how often H_k has
\* handled IncrementCounter.
Counter(k) ==
    Cardinality({i \in 1..Len(invoked) :
                    invoked[i].h = k /\ invoked[i].out = "IncrementCounter"})

C2_Witness ==
    /\ Len(invoked) = 2
    /\ invoked[1] = [out |-> "IncrementCounter", h |-> 1]
    /\ invoked[2] = [out |-> "IncrementCounter", h |-> 2]
    /\ Counter(1) = 1
    /\ Counter(2) = 1

\* C3: a handler that renders the instance while it runs does not make the
\* refresh (or any later read of the slot) panic; the handler value it runs
\* on stays alive and is the one current when its Output arrived, whatever
\* the slot holds by now; and an Output arriving after the refresh, also
\* while the handler still runs, goes to the new handler.
C3_Reentrancy ==
    /\ panic \notin {"on_output_ref: BorrowMutError",
                     "on_output_ref: BorrowError"}
    /\ \A i \in InFlight :
          /\ on_output[stack[i].h].strong >= 1
          /\ stack[i].h = delivered[stack[i].d].cur
    /\ \A i \in Executing :
          \A j \in Frames("use_bridge") :
             j > i /\ stack[j].pc \in {"bridge", "return"}
                => on_output_ref.val = stack[j].h /\ stack[j].h > stack[i].h

\* H_k runs, has rendered pass k+1, and the Output that arrived while it
\* still runs is being handled by H_(k+1).
C3_Witness ==
    \E i, j \in Executing :
       /\ i < j
       /\ stack[j].h = stack[i].h + 1
       /\ on_output_ref.val = stack[j].h

\* C4: while a handler runs, the forwarding closure that called it holds no
\* borrow of the slot: the slot's borrow flag shows only what the innermost
\* frame holds at this moment (the RefMut of a refresh in progress, the Ref
\* of a nested closure call reading the slot), and a render pass that went
\* on past the refresh holds none.
C4_NoBorrowWhileRunning ==
    /\ Executing # {}
          => on_output_ref.borrow =
                (IF Top.op = "use_bridge" /\ Top.pc \in {"assign", "release"}
                 THEN -1
                 ELSE IF Top.op = "adapter" /\ Top.pc \in {"clone", "release"}
                 THEN 1
                 ELSE 0)
    /\ \A j \in Frames("use_bridge") :
          stack[j].pc \in {"bridge", "connecting", "return"}
             => on_output_ref.borrow >= 0

\* A handler runs while the render pass it caused has refreshed the slot
\* and gone on.
C4_Witness ==
    /\ Executing # {}
    /\ Top.op = "use_bridge"
    /\ Top.pc = "bridge"
    /\ on_output_ref.borrow = 0

\* C5: the transport observes exactly the send calls issued: every call of
\* send that has ended made one call of the transport's send, and the
\* transport has seen the calls' arguments in call order, none missing,
\* none twice, none changed.
C5_SendsObserved ==
    /\ \A i \in 1..Len(sendDone) : sendDone[i].tcalls = 1
    /\ Len(transportSends) <= Len(sendCalls)
    /\ transportSends = SubSeq(sendCalls, 1, Len(transportSends))
    /\ \A i \in Frames("send") :
          stack[i].tcalls = (IF stack[i].pc \in {"borrow_mut", "send"}
                             THEN 0 ELSE 1)

\* The handles there are: those consumer code holds and those captured by
\* closures still alive.
AllHandles ==
    ({handles[i] : i \in 1..Len(handles)}
     \cup {on_output[k].cap : k \in {j \in Handler : on_output[j].strong > 0}})
    \ {0}

\* C6: cloning a handle makes no connection: there is never more than one,
\* every handle, cloned or returned by a pass, is on it, every send reaches
\* it, and every send that has ended, from whichever handle, made exactly
\* one call of the transport's send.
C6_CloneSharesConnection ==
    /\ connects <= 1
    /\ \A c \in AllHandles : c = 1 /\ c = bridge.conn
    /\ \A i \in 1..Len(sendCalls) : sendCalls[i].conn = 1
    /\ \A i \in 1..Len(transportSends) : transportSends[i].conn = 1
    /\ \A i \in 1..Len(sendDone) : sendDone[i].tcalls = 1
    /\ Len(transportSends) <= Len(sendCalls)

\* C7: every call of the forwarding closure calls the handler once, inside
\* the call, with the Output it was given: the handler invocations are the
\* Outputs handed over, in that order, none missing once the closure has
\* reached line 83, none twice.
C7_OneInvocationPerOutput ==
    /\ Len(delivered) - Len(invoked) =
          Cardinality({i \in Frames("adapter") :
                          stack[i].pc \in {"borrow", "clone", "release",
                                           "call"}})
    /\ Len(delivered) - Len(invoked) \in {0, 1}
    /\ \A i \in 1..Len(invoked) : invoked[i].out = delivered[i].out
    /\ \A i \in Executing : invoked[stack[i].d].out = stack[i].out

\* Two equal Outputs in a row have both been handled.
C7_Witness ==
    /\ Idle
    /\ Len(invoked) = 2
    /\ invoked[1].out = invoked[2].out

\* The owning references of the connection: what use_mut_ref stored, the
\* handles consumer code holds, the handles captured by closures still
\* alive, and the handle a pass is about to return.
Owners ==
    (IF hooks.bridge THEN 1 ELSE 0)
    + Len(handles)
    + Cardinality({k \in Handler :
                      on_output[k].strong > 0 /\ on_output[k].cap # 0})
    + Cardinality({i \in Frames("use_bridge") : stack[i].pc = "return"})

Connecting == \E i \in Frames("use_bridge") : stack[i].pc = "connecting"

\* C8: the connection is torn down exactly once, when its last owning
\* reference is released: never while an owner remains, never twice, and
\* it has been torn down in every state in which no owner is left.
C8_TeardownOnce ==
    /\ teardowns <= 1
    /\ connects = 0 => teardowns = 0
    /\ (connects = 1 /\ ~Connecting) => (teardowns = 1 <=> Owners = 0)

\* Two passes, then the instance unmounted and every handle was dropped.
C8_Witness ==
    /\ teardowns = 1
    /\ ~mounted
    /\ handles = <<>>
    /\ Len(returned) >= 2

\* C9: the Session only moves Uninitialized -> Connected -> Closed; it
\* becomes Connected once, by the T::bridge call of the first pass, and no
\* step connects again, returns to Uninitialized or leaves Closed.
C9_StateMachine ==
    [][/\ state = "Uninitialized" => state' \in {"Uninitialized", "Connected"}
       /\ state = "Connected" => state' \in {"Connected", "Closed"}
       /\ state = "Closed" => state' = "Closed"
       /\ connects' # connects =>
             /\ connects = 0 /\ connects' = 1
             /\ state = "Uninitialized" /\ state' = "Connected"
             /\ Top.op = "use_bridge" /\ Top.h = 1
       /\ (state = "Uninitialized" /\ state' = "Connected") =>
             connects' = connects + 1]_vars

\* Every pass has run and the Session has been closed.
C9_Witness ==
    /\ state = "Closed"
    /\ connects = 1
    /\ Len(returned) = MaxPass

\* C10: a send the transport rejects ends in the caller of send seeing the
\* failure, after one call of the transport's send and no more.
C10_SendFailurePropagates ==
    /\ \A i \in 1..Len(sendDone) :
          sendDone[i].tres = "reject" =>
             sendDone[i].result = "panic" /\ sendDone[i].tcalls = 1
    /\ \A i \in Frames("send") :
          stack[i].tres = "reject" =>
             stack[i].tcalls = 1 /\ panic = "SendFailure"

C10_Witness ==
    /\ stack = <<>>
    /\ panic = "SendFailure"
    /\ \E i \in 1..Len(sendDone) :
          sendDone[i].tres = "reject" /\ sendDone[i].result = "panic"

\* The counts and flags the standard library keeps agree with who holds
\* what.
RcConsistent ==
    /\ ~Connecting => bridge.strong = Owners
    /\ bridge.borrow \in {-1, 0}
    /\ bridge.borrow = -1 <=>
          \E i \in Frames("send") :
             stack[i].pc \in {"send", "in_transport", "release"}
    /\ on_output_ref.borrow \in {-1, 0, 1}
    /\ \A k \in Handler : on_output[k].strong >= 0
    /\ on_output_ref.strong >= 0
    /\ state = "Connected" => on_output_ref.strong >= 1
    /\ on_output_ref.strong >= 1 =>
          on_output[on_output_ref.val].strong >= 1

\* C11: the connection is not torn down while an owning reference remains.
\* After the instance unmounts with a handle still held the session is
\* Connected and nothing was torn down, a send the component makes on the
\* surviving handle finds the cell free and is handed to the transport, and
\* a Closed session means the instance is unmounted and no handle is left.
C11_AliveWhileOwned ==
    /\ (~mounted /\ handles # <<>>) =>
          /\ state = "Connected"
          /\ teardowns = 0
          /\ bridge.strong >= Len(handles)
    /\ (~mounted /\ stack # <<>> /\ stack[1].op = "send") =>
          /\ state = "Connected"
          /\ stack[1].pc = "borrow_mut" => bridge.borrow = 0
          /\ stack[1].pc \in {"in_transport", "release"} =>
                \E k \in 1..Len(transportSends) :
                   transportSends[k] = [conn |-> stack[1].conn,
                                        msg |-> stack[1].msg]
    /\ state = "Closed" => (~mounted /\ handles = <<>>)

\* The instance is unmounted, one handle survives, and its send is inside
\* the transport.
C11_Witness ==
    /\ ~mounted
    /\ Len(handles) = 1
    /\ stack # <<>>
    /\ stack[1].op = "send"
    /\ stack[1].pc = "in_transport"
    /\ state = "Connected"

\* C12: from its creation the slot holds exactly one handler, alive: the
\* first pass's until line 76 first runs, then the handler of the last pass
\* that ran line 76; a pass past line 76 finds its own handler there, and
\* between passes the slot holds the latest pass's.  Whenever the forwarding
\* closure can run (the session is Connected, T::bridge is executing, or
\* the closure is executing) the slot exists and is not empty.
C12_SlotHoldsOne ==
    /\ on_output_ref.strong >= 1 =>
          /\ on_output_ref.val \in Handler
          /\ on_output[on_output_ref.val].strong >= 1
          /\ on_output_ref.val = (IF refreshed = 0 THEN 1 ELSE refreshed)
    /\ \A i \in Frames("use_bridge") :
          /\ stack[i].pc \in {"release", "bridge", "connecting", "return"} =>
                on_output_ref.val = stack[i].h
          /\ stack[i].pc \in {"borrow_mut", "assign"} =>
                on_output_ref.val = (IF stack[i].h = 1 THEN 1
                                     ELSE stack[i].h - 1)
    /\ (~Rendering /\ on_output_ref.strong >= 1) => on_output_ref.val = passes
    /\ (state = "Connected" \/ Connecting \/ Frames("adapter") # {}) =>
          /\ on_output_ref.strong >= 1
          /\ on_output_ref.val \in Handler

\* On the first pass the transport delivers an Output from inside
\* T::bridge, and the forwarding closure reads the first pass's handler
\* from the slot.
C12_Witness ==
    /\ Len(stack) = 2
    /\ stack[1].op = "use_bridge"
    /\ stack[1].pc = "connecting"
    /\ stack[1].h = 1
    /\ stack[2].op = "adapter"
    /\ stack[2].pc = "clone"
    /\ on_output_ref.val = 1

\* C13: a render pass other than the first changes the slot content only:
\* in no step of it, its start included, is a connection created, a send
\* issued on the transport, the connection torn down or a handler invoked,
\* and the connection and the forwarding closure registered with it stay
\* what they were; its start leaves the slot as it was too.  A step of
\* send, its call included, and a clone of a handle leave the slot content
\* unchanged and invoke no handler.
C13_FrameEffect ==
    [][LET laterPass == stack # <<>> /\ Top.op = "use_bridge" /\ Top.h >= 2
           laterStart == passes >= 1 /\ passes' = passes + 1
           inSend == stack # <<>> /\ Top.op = "send"
           sendCall == Len(sendCalls') > Len(sendCalls)
           clone == stack = <<>> /\ Len(handles') > Len(handles)
       IN  /\ (laterPass \/ laterStart) =>
                 /\ connects' = connects
                 /\ state' = state
                 /\ teardowns' = teardowns
                 /\ transportSends' = transportSends
                 /\ sendCalls' = sendCalls
                 /\ invoked' = invoked
                 /\ delivered' = delivered
                 /\ bridge'.conn = bridge.conn
                 /\ bridge'.borrow = bridge.borrow
                 /\ panic' = panic
           /\ laterStart => on_output_ref' = on_output_ref
           /\ (inSend \/ sendCall \/ clone) =>
                 /\ on_output_ref'.val = on_output_ref.val
                 /\ refreshed' = refreshed
                 /\ invoked' = invoked
                 /\ passes' = passes
           /\ clone => (stack' = stack /\ transportSends' = transportSends)
      ]_vars

\* Two passes have returned, the second refreshed the slot, a send has
\* completed and a handle has been cloned, with one connection made.
C13_Witness ==
    /\ Len(returned) >= 2
    /\ refreshed >= 2
    /\ on_output_ref.val = refreshed
    /\ Len(sendDone) >= 1
    /\ Len(handles) > Len(returned)
    /\ connects = 1
    /\ state = "Connected"

\* C14: a handler may call send on a handle of its own session in every
\* delivery context: a send called by a running handler finds the
\* connection's cell unborrowed at line 22, and no send panics with a
\* BorrowMutError, also when the forwarding closure was invoked from
\* inside a send still in progress.
C14_HandlerMaySend ==
    /\ panic # "bridge: BorrowMutError"
    /\ \A i \in Frames("send") :
          (i > 1 /\ stack[i - 1].op = "adapter"
                 /\ stack[i].pc = "borrow_mut") => bridge.borrow = 0

\* C15: once the instance is unmounted and every handle held by component
\* code is dropped, the connection is eventually torn down, also when the
\* handler stored in the slot captured a clone of the handle.
C15_EventuallyTornDown ==
    (connects = 1 /\ ~mounted /\ handles = <<>>) ~> (state = "Closed")

\* C16: no send is issued on a connection that is Uninitialized or Closed.
\* A handle, held by component code, captured by a live handler or being
\* returned by a pass, exists only while the session is Connected; every
\* send in progress runs on the one connection of a Connected session; and
\* an Uninitialized session has no handle, no send call and no send
\* observed by the transport.
C16_SendOnlyConnected ==
    /\ (handles # <<>> \/ AllHandles # {}) =>
          (connects = 1 /\ state = "Connected" /\ AllHandles = {bridge.conn})
    /\ \A i \in Frames("use_bridge") :
          stack[i].pc = "return" => state = "Connected"
    /\ \A i \in Frames("send") :
          /\ state = "Connected"
          /\ stack[i].conn = bridge.conn
          /\ bridge.strong >= 1
    /\ state = "Uninitialized" =>
          /\ handles = <<>>
          /\ returned = <<>>
          /\ sendCalls = <<>>
          /\ transportSends = <<>>
    /\ \A k \in 1..Len(transportSends) : transportSends[k].conn = 1

\* The connection was torn down after a send on it was observed by the
\* transport while it was Connected.
C16_Witness ==
    /\ state = "Closed"
    /\ teardowns = 1
    /\ Len(transportSends) >= 1
    /\ Len(sendDone) >= 1
    /\ handles = <<>>

====
